---- MODULE Spec2Model ----
(***************************************************************************)
(* A model of data_collector.py: the DataCollector record table, the pull  *)
(* (sync_records), the per-record pipeline (process_content, with          *)
(* detect_file_type, save_temp_file and convert_content) and the push      *)
(* (update_records), driven either by main() or by any bounded sequence of *)
(* calls of the three public methods.                                      *)
(*                                                                         *)
(* Byte strings (bytes) are tuples of byte values; Python str payloads are *)
(* tuples of code points tagged "str".  Text columns, content-types and    *)
(* references are TLA+ strings.  datetime values are abstracted to the     *)
(* year of a "1 Jan, 00:00:00" instant.                                    *)
(***************************************************************************)
EXTENDS Naturals, Sequences, FiniteSets, TLC

(***************************************************************************)
(* Python values                                                           *)
(***************************************************************************)
\* Python's None, for columns and results that hold either None or a string.
None == "None"

UpperChars == "ABCDEFGHIJKLMNOPQRSTUVWXYZ"
LowerChars == "abcdefghijklmnopqrstuvwxyz"

\* str.lower() on one character.
LowerChar(c) ==
    IF \E i \in 1..Len(UpperChars) : SubSeq(UpperChars, i, i) = c
    THEN LET i == CHOOSE j \in 1..Len(UpperChars) : SubSeq(UpperChars, j, j) = c
         IN  SubSeq(LowerChars, i, i)
    ELSE c

\* str.lower()
RECURSIVE Lower(_)
Lower(s) ==
    IF Len(s) = 0 THEN ""
    ELSE LowerChar(SubSeq(s, 1, 1)) \o Lower(SubSeq(s, 2, Len(s)))

\* `sub in s` on str
Contains(sub, s) ==
    \E i \in 1..(Len(s) + 1 - Len(sub)) : SubSeq(s, i, i + Len(sub) - 1) = sub

\* s.startswith(prefix), on str and on bytes alike
StartsWith(s, prefix) ==
    /\ Len(s) >= Len(prefix)
    /\ SubSeq(s, 1, Len(prefix)) = prefix

\* s.endswith(suffix)
EndsWith(s, suffix) ==
    /\ Len(s) >= Len(suffix)
    /\ SubSeq(s, Len(s) + 1 - Len(suffix), Len(s)) = suffix

\* chr() on the code points the modelled texts use (lower-case ASCII letters)
Chr(c) == SubSeq(LowerChars, c - 96, c - 96)

\* bytes.decode('utf-8', errors='ignore') on the modelled payloads: ASCII
\* letters decode to themselves, a byte that cannot start a UTF-8 sequence
\* (0xFF) is dropped.
RECURSIVE Decode(_)
Decode(b) ==
    IF Len(b) = 0 THEN ""
    ELSE (IF Head(b) < 128 THEN Chr(Head(b)) ELSE "") \o Decode(Tail(b))

\* The TLA+ string of a Python str given as its code points.
RECURSIVE StrText(_)
StrText(s) == IF Len(s) = 0 THEN "" ELSE Chr(Head(s)) \o StrText(Tail(s))

\* hashlib.sha1(text.encode()).hexdigest(), first eight hex digits, on the
\* texts of the model
Sha1(text) ==
    CASE text = ""   -> "da39a3ee"
      [] text = "a"  -> "86f7e437"
      [] text = "b"  -> "e9d71f5e"
      [] text = "md" -> "240c4df7"

\* Python truthiness of a str-or-None value: `if value:`
Truthy(value) == value # None /\ value # ""

\* A payload handed to the classifier and the converter: bytes (a file's or
\* a response's body) or str (BeautifulSoup's get_text()).
Bytes(data) == [type |-> "bytes", data |-> data]
Str(data) == [type |-> "str", data |-> data]

(***************************************************************************)
(* The type classifier                                                     *)
(***************************************************************************)
PDF_MAGIC == <<37, 80, 68, 70>>                     \* b'%PDF'
OLE2_MAGIC == <<208, 207, 17, 224>>                 \* b'\xD0\xCF\x11\xE0'
ZIP_MAGIC == <<80, 75, 3, 4>>                       \* b'PK\x03\x04'
DOCTYPE_MAGIC ==                                    \* b'<!DOCTYPE html>'
    <<60, 33, 68, 79, 67, 84, 89, 80, 69, 32, 104, 116, 109, 108, 62>>
HTML_MAGIC == <<60, 104, 116, 109, 108>>            \* b'<html'
XML_MAGIC == <<60, 63, 120, 109, 108>>              \* b'<?xml'

\* The class attribute FILE_TYPES, in the dict's insertion order.
FILE_TYPES ==
    << [name |-> "html",
        content_types |-> <<"text/html", "application/xhtml+xml">>,
        extensions |-> <<".html", ".htm", ".xhtml">>,
        magic_numbers |-> <<DOCTYPE_MAGIC, HTML_MAGIC, XML_MAGIC>>],
       [name |-> "text",
        content_types |-> <<"text/plain", "text/txt">>,
        extensions |-> <<".txt">>,
        magic_numbers |-> <<>>],
       [name |-> "pdf",
        content_types |-> <<"application/pdf", "application/x-pdf",
                            "application/acrobat", "application/vnd.pdf">>,
        extensions |-> <<".pdf">>,
        magic_numbers |-> <<PDF_MAGIC>>],
       [name |-> "word",
        content_types |->
            <<"application/msword",
              "application/vnd.openxmlformats-officedocument.wordprocessingml.document",
              "application/vnd.ms-word",
              "application/vnd.ms-word.document.macroEnabled.12">>,
        extensions |-> <<".doc", ".docx">>,
        magic_numbers |-> <<OLE2_MAGIC, ZIP_MAGIC>>],
       [name |-> "excel",
        content_types |->
            <<"application/vnd.ms-excel",
              "application/vnd.openxmlformats-officedocument.spreadsheetml.sheet",
              "application/vnd.ms-excel.sheet.macroEnabled.12">>,
        extensions |-> <<".xls", ".xlsx">>,
        magic_numbers |-> <<OLE2_MAGIC, ZIP_MAGIC>>],
       [name |-> "powerpoint",
        content_types |->
            <<"application/vnd.ms-powerpoint",
              "application/vnd.openxmlformats-officedocument.presentationml.presentation",
              "application/vnd.ms-powerpoint.presentation.macroEnabled.12">>,
        extensions |-> <<".ppt", ".pptx">>,
        magic_numbers |-> <<OLE2_MAGIC, ZIP_MAGIC>>] >>

\* FILE_TYPES[file_type]
FileTypeInfo(file_type) ==
    FILE_TYPES[CHOOSE i \in 1..Len(FILE_TYPES) : FILE_TYPES[i].name = file_type]

\* The first file type, in FILE_TYPES' order, among the entries (given by
\* their positions) that satisfy the test of a loop
\* `for ... : if any(...): return file_type`; None when there is none.
FirstFileType(hits) ==
    IF hits = {} THEN None
    ELSE FILE_TYPES[CHOOSE i \in hits : \A j \in hits : i <= j].name

\* any(ct in lowered for ct in type_info['content_types'])
ContentTypeMatches(type_info, lowered) ==
    \E k \in 1..Len(type_info.content_types) :
        Contains(type_info.content_types[k], lowered)

\* MagicMatches by equality: the content is a magic number and nothing more.
MagicMatchesExact(type_info, content_start) ==
    \E k \in 1..Len(type_info.magic_numbers) :
        content_start = type_info.magic_numbers[k]

\* any(content_start.startswith(magic) for magic in type_info['magic_numbers'])
MagicMatches(type_info, content_start) ==
    \E k \in 1..Len(type_info.magic_numbers) :
        StartsWith(content_start, type_info.magic_numbers[k])

\* The loop of lines 241-244 (and of lines 369-372): the first file type one
\* of whose content-types occurs in content_type.lower(); None when none does.
ContentTypeFileType(content_type) ==
    LET lowered == Lower(content_type)
    IN  FirstFileType({i \in 1..Len(FILE_TYPES) : ContentTypeMatches(FILE_TYPES[i], lowered)})

\* The content-type strings of the model: absent, empty, the ones derived
\* from a local path's extension, and the servers' headers.
ContentTypes ==
    {None, "", "application/octet-stream", "image/png",
     "text/html", "text/html; charset=utf-8", "text/plain", "Text/Plain; charset=UTF-8",
     "application/pdf", "Application/PDF", "application/msword",
     "application/vnd.openxmlformats-officedocument.wordprocessingml.document",
     "application/vnd.ms-excel",
     "application/vnd.openxmlformats-officedocument.spreadsheetml.sheet",
     "application/vnd.ms-powerpoint",
     "application/vnd.openxmlformats-officedocument.presentationml.presentation"}

\* ContentTypeFileType and the test of line 247, tabulated over ContentTypes
\* (each string is lowered and searched once, not once per state).
ContentTypeFacts ==
    [ct \in ContentTypes |->
        [file_type |-> ContentTypeFileType(ct),
         text_plain |-> Contains("text/plain", Lower(ct))]]

\* detect_file_type(content, content_type): [exc, val], val the file type or
\* None; exc the exception raised (str.startswith given a bytes prefix).
detect_file_type(content, content_type) ==
    LET byType == ContentTypeFacts[content_type].file_type
        content_start == SubSeq(content.data, 1,
                                IF Len(content.data) < 32 THEN Len(content.data) ELSE 32)
        byMagic == FirstFileType({i \in 1..Len(FILE_TYPES) :
                                    MagicMatches(FILE_TYPES[i], content_start)})
    IN  IF Truthy(content_type) /\ byType # None
        THEN [exc |-> None, val |-> byType]
        ELSE IF Truthy(content_type) /\ ContentTypeFacts[content_type].text_plain
        THEN [exc |-> None, val |-> "text"]
        ELSE IF content.type = "str"
        THEN [exc |-> "TypeError", val |-> None]
        ELSE [exc |-> None, val |-> byMagic]

\* detect_file_extension(content, content_type): the concrete extension, or
\* None.  No method of the class calls it.
detect_file_extension(content, content_type) ==
    IF StartsWith(content.data, ZIP_MAGIC)
    THEN IF ~Truthy(content_type) THEN None
         ELSE IF Contains("wordprocessingml", content_type) THEN ".docx"
         ELSE IF Contains("spreadsheetml", content_type) THEN ".xlsx"
         ELSE IF Contains("presentationml", content_type) THEN ".pptx"
         ELSE None
    ELSE IF StartsWith(content.data, OLE2_MAGIC)
    THEN IF ~Truthy(content_type) THEN None
         ELSE IF Contains("msword", content_type) THEN ".doc"
         ELSE IF Contains("ms-excel", content_type) THEN ".xls"
         ELSE IF Contains("ms-powerpoint", content_type) THEN ".ppt"
         ELSE None
    ELSE None

\* check_content_type that accepts every content-type the server states.
check_content_type_any(content_type) ==
    Truthy(content_type)

\* check_content_type(content_type)
check_content_type(content_type) ==
    /\ Truthy(content_type)
    /\ ContentTypeFacts[content_type].file_type # None

(***************************************************************************)
(* Messages written to the error column (str(e) of the exception raised,   *)
(* or the literal of the source, in English)                               *)
(***************************************************************************)
MSG_UNSUPPORTED_FORMAT == "unsupported file format"               \* line 305
MSG_CONVERSION_FAILED == "content conversion failed"              \* lines 324, 430, 464, 530
MSG_FILE_UP_TO_DATE == "file is up to date"                       \* line 402
MSG_CONTENT_UP_TO_DATE == "content is up to date"                 \* line 488
MSG_UNSUPPORTED_CONTENT_TYPE == "unsupported content type: "      \* line 504
MSG_FILE_NOT_FOUND == "file does not exist"                       \* line 541
MSG_NAME_ERROR == "name 'markitdown' is not defined"
MSG_UNBOUND_LOCAL ==
    "cannot access local variable 'markdown_text' where it is not associated with a value"
MSG_WRITE_TYPE_ERROR == "a bytes-like object is required, not 'str'"
MSG_STARTSWITH_TYPE_ERROR == "startswith first arg must be str or a tuple of str, not bytes"
MSG_TIME_FORMAT == "time data does not match format"
MSG_CONNECTION_ERROR == "connection error"

(***************************************************************************)
(* The converter adapter                                                   *)
(***************************************************************************)
\* The names bound at module level when convert_content runs: the imports
\* of lines 2-12 and the module's own definitions.
ModuleGlobals ==
    {"os", "sys", "yaml", "sqlite3", "hashlib", "logging", "requests", "datetime",
     "urlparse", "BeautifulSoup", "MarkItDown", "DataCollector", "main"}

\* What MarkItDown.convert does with an artifact: returns a result with
\* text_content, returns None, or raises.
MdReturns(text) == [kind |-> "ok", text |-> text, exc |-> None, message |-> ""]
MdReturnsNone == [kind |-> "none", text |-> "", exc |-> None, message |-> ""]
MdRaises(exc, message) == [kind |-> "raise", text |-> "", exc |-> exc, message |-> message]

\* save_temp_file(content, file_type) at the clock reading `now`, on a disk
\* holding temp_files: open(temp_file, 'wb') creates (or truncates) the
\* artifact, then f.write(content) raises TypeError for a str payload.
save_temp_file(content, file_type, now, temp_files) ==
    LET extension == FileTypeInfo(file_type).extensions[1]
        temp_file == "temp_" \o now \o extension
    IN  [exc |-> IF content.type = "str" THEN MSG_WRITE_TYPE_ERROR ELSE None,
         temp_file |-> temp_file,
         temp_files |-> temp_files \cup {temp_file}]

\* A conversion result: Python's None, or an object with text_content.
NoResult == [ok |-> FALSE, text_content |-> ""]
ConversionResult(text_content) == [ok |-> TRUE, text_content |-> text_content]

\* The effect of one convert_content call: what it returns, the value it
\* leaves in the record's error column (`error` when it writes none), the
\* artifacts on disk afterwards, and what it did on the way: the artifact
\* it gave md.convert, whether it called md.convert, and the file type
\* detect_file_type returned.
ConvertEffect(result, error, temp_files, artifact, md_called) ==
    [result |-> result, error |-> error, temp_files |-> temp_files,
     artifact |-> artifact, md_called |-> md_called, file_type |-> None]

\* The inner try of convert_content (lines 318-347) on the artifact
\* temp_file: md.convert, the except clause and the finally.  An exception
\* reaching the except clause makes Python evaluate
\* markitdown._markitdown.FileConversionException, which raises NameError
\* unless the name markitdown is bound; the finally runs either way.
convert_artifact(temp_file, md, error, temp_files) ==
    LET removed == temp_files \ {temp_file}
        raised == IF md.kind = "none" THEN "ValueError" ELSE md.exc
        message == IF md.kind = "none" THEN MSG_CONVERSION_FAILED ELSE md.message
    IN  IF md.kind = "ok"
        THEN ConvertEffect(ConversionResult(md.text), error, removed, temp_file, TRUE)
        ELSE IF "markitdown" \notin ModuleGlobals
        THEN ConvertEffect(NoResult, MSG_NAME_ERROR, removed, temp_file, TRUE)
        ELSE IF raised = "FileConversionException"
        THEN ConvertEffect(NoResult, message, removed, temp_file, TRUE)
        ELSE ConvertEffect(NoResult, message, removed, temp_file, TRUE)

\* convert_content from line 316 on, for a payload of a file type other
\* than text, given what save_temp_file did.
convert_saved(saved, md, error) ==
    IF saved.exc # None
    THEN ConvertEffect(NoResult, saved.exc, saved.temp_files, None, FALSE)
    ELSE convert_artifact(saved.temp_file, md, error, saved.temp_files)

\* convert_detected without the test of line 304: a payload of no known
\* file type is returned as text.
convert_detected_as_text(detected, content, md, now, error, temp_files) ==
    IF detected.exc # None
    THEN ConvertEffect(NoResult, MSG_STARTSWITH_TYPE_ERROR, temp_files, None, FALSE)
    ELSE IF detected.val = None \/ detected.val = "text"
    THEN [ConvertEffect(ConversionResult(IF content.type = "bytes"
                                         THEN Decode(content.data)
                                         ELSE StrText(content.data)),
                        error, temp_files, None, FALSE)
            EXCEPT !.file_type = "text"]
    ELSE [convert_saved(save_temp_file(content, detected.val, now, temp_files), md, error)
            EXCEPT !.file_type = detected.val]

\* convert_content from line 304 on, given what detect_file_type returned
\* or raised.
convert_detected(detected, content, md, now, error, temp_files) ==
    IF detected.exc # None
    THEN ConvertEffect(NoResult, MSG_STARTSWITH_TYPE_ERROR, temp_files, None, FALSE)
    ELSE IF detected.val = None
    THEN ConvertEffect(NoResult, MSG_UNSUPPORTED_FORMAT, temp_files, None, FALSE)
    ELSE IF detected.val = "text"
    THEN [ConvertEffect(ConversionResult(IF content.type = "bytes"
                                         THEN Decode(content.data)
                                         ELSE StrText(content.data)),
                        error, temp_files, None, FALSE)
            EXCEPT !.file_type = "text"]
    ELSE [convert_saved(save_temp_file(content, detected.val, now, temp_files), md, error)
            EXCEPT !.file_type = detected.val]

\* convert_content(content, content_type, id), for a record whose error
\* column holds `error`, with the converter behaving as md at the clock
\* reading `now`.
convert_content(content, content_type, md, now, error, temp_files) ==
    convert_detected(detect_file_type(content, content_type),
                     content, md, now, error, temp_files)

(***************************************************************************)
(* Timestamps                                                              *)
(***************************************************************************)
Digits == "0123456789"
IsDigit(c) == \E d \in 1..Len(Digits) : SubSeq(Digits, d, d) = c
DigitValue(c) == (CHOOSE d \in 1..Len(Digits) : SubSeq(Digits, d, d) = c) - 1
IsYear(s) == Len(s) = 4 /\ \A i \in 1..4 : IsDigit(SubSeq(s, i, i))
YearValue(s) ==
    DigitValue(SubSeq(s, 1, 1)) * 1000 + DigitValue(SubSeq(s, 2, 2)) * 100
    + DigitValue(SubSeq(s, 3, 3)) * 10 + DigitValue(SubSeq(s, 4, 4))

\* datetime.strptime(s, '%Y-%m-%d %H:%M:%S') on "YYYY-01-01 00:00:00":
\* [exc, val], ValueError for a string of another shape.
StrptimeRecord(s) ==
    IF Len(s) = 19 /\ IsYear(SubSeq(s, 1, 4)) /\ SubSeq(s, 5, 19) = "-01-01 00:00:00"
    THEN [exc |-> None, val |-> YearValue(SubSeq(s, 1, 4))]
    ELSE [exc |-> MSG_TIME_FORMAT, val |-> 0]

\* datetime.strptime(s, '%a, %d %b %Y %H:%M:%S GMT') on
\* "Ddd, 01 Jan YYYY 00:00:00 GMT".
StrptimeHttp(s) ==
    IF /\ Len(s) = 29
       /\ SubSeq(s, 1, 3) \in {"Mon", "Tue", "Wed", "Thu", "Fri", "Sat", "Sun"}
       /\ SubSeq(s, 4, 12) = ", 01 Jan "
       /\ IsYear(SubSeq(s, 13, 16))
       /\ SubSeq(s, 17, 29) = " 00:00:00 GMT"
    THEN [exc |-> None, val |-> YearValue(SubSeq(s, 13, 16))]
    ELSE [exc |-> MSG_TIME_FORMAT, val |-> 0]

(***************************************************************************)
(* The environment of one record: the file system, the web server and the  *)
(* converter as process_content finds them while it handles the record     *)
(***************************************************************************)
\* References of the remote store's records: none, three local paths, a
\* URL,selector pair and a bare URL.
REF_DOCX == "/tmp/report.docx"
REF_TXT == "/tmp/notes.txt"
REF_BLOB == "/tmp/blob"
REF_SELECTOR == "https://example.org/a,div.content"
REF_URL == "https://example.org/doc"
References == {"", REF_DOCX, REF_TXT, REF_BLOB, REF_SELECTOR, REF_URL}

\* datetime.fromtimestamp(os.path.getmtime(path)) of a file
FileTimes == {2019, 2020, 2021}
\* updated_at of the remote store's records
UpdatedAts == {"2020-01-01 00:00:00"}
\* Last-Modified headers: absent, three dates, one not in the GMT format
LastModifieds ==
    {None, "Tue, 01 Jan 2019 00:00:00 GMT", "Wed, 01 Jan 2020 00:00:00 GMT",
     "Fri, 01 Jan 2021 00:00:00 GMT", "Fri, 01 Jan 2021 00:00:00 +0000"}

PDF_BODY == <<37, 80, 68, 70, 45, 49, 46, 52>>      \* b'%PDF-1.4'
DOCX_BODY == <<80, 75, 3, 4, 20, 0>>                \* b'PK\x03\x04\x14\x00'
TEXT_BODY == <<98>>                                 \* b'b'
FF_TEXT_BODY == <<255, 98>>                         \* b'\xffb'

\* What MarkItDown.convert may do with an artifact.
MdOutcomes ==
    {MdReturns("md"), MdReturns(""), MdReturnsNone,
     MdRaises("FileConversionException", "could not convert")}

\* A world in which nothing exists and every request fails.
NoWorld ==
    [exists |-> FALSE, mtime |-> 0, body |-> <<>>,
     head |-> "error", get |-> "error", last_modified |-> None, content_type |-> "",
     selected |-> FALSE, selected_text |-> <<>>,
     md |-> MdReturnsNone, now |-> "20240101000000"]

\* A file at a local path, with its modification time and body, and the
\* converter's behaviour on it.
FileWorld(mtime, body, md) ==
    [NoWorld EXCEPT !.exists = TRUE, !.mtime = mtime, !.body = body, !.md = md]

\* A local path: missing; or a file of each modification time; or a newer
\* file with each of the bodies the path may hold and, where the body goes
\* to the converter, each behaviour of the converter.
FileWorlds(reference) ==
    {NoWorld} \cup
    CASE reference = REF_DOCX ->
            {FileWorld(t, DOCX_BODY, MdReturns("md")) : t \in FileTimes} \cup
            {FileWorld(2021, DOCX_BODY, m) : m \in MdOutcomes}
      [] reference = REF_TXT ->
            {FileWorld(t, TEXT_BODY, MdReturnsNone) : t \in FileTimes} \cup
            {FileWorld(2021, b, MdReturnsNone) : b \in {FF_TEXT_BODY, <<>>}}
      [] reference = REF_BLOB ->
            {FileWorld(t, TEXT_BODY, MdReturnsNone) : t \in FileTimes} \cup
            {FileWorld(2021, PDF_BODY, m) : m \in MdOutcomes}

\* A URL,selector pair: the GET fails, or returns a page (with its
\* content-type header) in which the selector matches an element or none;
\* the converter would convert an artifact made of the element's text.
SelectorWorlds ==
    {NoWorld} \cup
    {[NoWorld EXCEPT !.get = "ok", !.content_type = "text/html; charset=utf-8"]} \cup
    {[NoWorld EXCEPT !.get = "ok", !.content_type = c, !.selected = TRUE,
                     !.selected_text = TEXT_BODY, !.md = MdReturns("md")] :
        c \in {"text/html; charset=utf-8", "text/plain", ""}}

\* What a bare URL's server answers: to the HEAD, a Last-Modified and a
\* content-type; to the GET, the same content-type and a body (or failure).
UrlWorld(last_modified, content_type, get, body, md) ==
    [NoWorld EXCEPT !.head = "ok", !.last_modified = last_modified,
                    !.content_type = content_type, !.get = get, !.body = body, !.md = md]

\* A bare URL: the HEAD fails; or it answers with each Last-Modified, for
\* an image and for a PDF the converter converts; or, with no Last-Modified,
\* the GET fails, or returns a PDF the converter handles in each of its ways,
\* or returns plain text, or returns a PDF labelled text/html; or it
\* answers with no content-type.
UrlWorlds ==
    {NoWorld} \cup
    {UrlWorld(lm, "image/png", "error", <<>>, MdReturnsNone) : lm \in LastModifieds} \cup
    {UrlWorld(lm, "Application/PDF", "ok", PDF_BODY, MdReturns("md")) :
        lm \in LastModifieds} \cup
    {UrlWorld(None, "Application/PDF", "error", <<>>, MdReturnsNone)} \cup
    {UrlWorld(None, "Application/PDF", "ok", PDF_BODY, m) : m \in MdOutcomes} \cup
    {UrlWorld(None, "Text/Plain; charset=UTF-8", "ok", FF_TEXT_BODY, MdReturnsNone)} \cup
    {UrlWorld(None, "text/html", "ok", PDF_BODY, MdReturns("md"))} \cup
    {UrlWorld(None, "", "error", <<>>, MdReturnsNone)}

\* The worlds a record with this reference may be processed in.
WorldsOf(reference) ==
    CASE reference = "" -> {NoWorld}
      [] reference \in {REF_DOCX, REF_TXT, REF_BLOB} -> FileWorlds(reference)
      [] reference = REF_SELECTOR -> SelectorWorlds
      [] reference = REF_URL -> UrlWorlds

Worlds == [reference \in References |-> WorldsOf(reference)]

(***************************************************************************)
(* The record pipeline: one iteration of process_content's loop            *)
(***************************************************************************)
\* The index of the last occurrence of character c in s, 0 when absent.
LastIndexOf(s, c) ==
    LET at == {i \in 1..Len(s) : SubSeq(s, i, i) = c}
    IN  IF at = {} THEN 0 ELSE CHOOSE i \in at : \A j \in at : j <= i

\* os.path.splitext(path)[1]: from the last dot of the last path component,
\* unless that dot leads the component.
SplitextExt(path) ==
    LET slash == LastIndexOf(path, "/")
        dot == LastIndexOf(path, ".")
    IN  IF dot > slash + 1 THEN SubSeq(path, dot, Len(path)) ELSE ""

\* The content-type process_content derives from a local path's extension
\* (lines 416-425).
ExtensionContentType(reference) ==
    LET ext == Lower(SplitextExt(reference))
    IN  CASE ext = ".doc"  -> "application/msword"
          [] ext = ".docx" ->
                "application/vnd.openxmlformats-officedocument.wordprocessingml.document"
          [] ext = ".xls"  -> "application/vnd.ms-excel"
          [] ext = ".xlsx" ->
                "application/vnd.openxmlformats-officedocument.spreadsheetml.sheet"
          [] ext = ".ppt"  -> "application/vnd.ms-powerpoint"
          [] ext = ".pptx" ->
                "application/vnd.openxmlformats-officedocument.presentationml.presentation"
          [] ext = ".txt"  -> "text/plain"
          [] OTHER -> "application/octet-stream"

\* What process_content reads off a reference string (lines 416-425, 448,
\* 467), tabulated over References.
ReferenceFacts ==
    [reference \in References |->
        [comma |-> Contains(",", reference),
         http |-> StartsWith(Lower(reference), "http"),
         content_type |-> ExtensionContentType(reference)]]

\* The local variable markdown_text of process_content: unbound until an
\* iteration assigns it, and then bound for the rest of the call.
Unbound == [bound |-> FALSE, v |-> ""]
Bound(v) == [bound |-> TRUE, v |-> v]

\* What one iteration did besides its writes.
NoTrace ==
    [converted |-> FALSE, md_called |-> FALSE, artifact |-> None, file_type |-> None,
     convert_error |-> None, head_issued |-> FALSE, get_issued |-> FALSE]

\* The effect of one iteration on the record's row, on markdown_text and on
\* the disk, with the terminal state the record ends in, and whether a
\* commit followed the iteration's last write.
Effect(outcome, row, markdown_text, temp_files, trace) ==
    [outcome |-> outcome, row |-> row, markdown_text |-> markdown_text,
     temp_files |-> temp_files, trace |-> trace, committed |-> FALSE]

\* Commit left to a later statement: the iteration ends with its writes
\* still in the open transaction.
CommitDeferred(eff) == eff

\* self.conn.commit() after the iteration's last UPDATE (lines 408, 444,
\* 510, 543, 576, 586).
Commit(eff) == [eff EXCEPT !.committed = TRUE]

\* `continue` after UPDATE record SET error = message (lines 404-409,
\* 490-495, 506-511).
Skipped(row, message, markdown_text, temp_files, trace) ==
    Commit(Effect("Skipped", [row EXCEPT !.error = message], markdown_text, temp_files,
                  trace))

\* Failed when the handler also resets markdown_text to the empty string,
\* where the next iterations find it.
FailedResetsText(row, message, markdown_text, temp_files, trace) ==
    Commit(Effect("Failed", [row EXCEPT !.error = message], Bound(""), temp_files, trace))

\* The except handler of lines 580-590, and the missing-file exit of lines
\* 538-544: the message goes to error, the loop continues.
Failed(row, message, markdown_text, temp_files, trace) ==
    Commit(Effect("Failed", [row EXCEPT !.error = message], markdown_text, temp_files,
                  trace))

\* UpdateText when the UPDATE also blanks the error column.
UpdateTextBlanksError(row, markdown_text, temp_files, trace) ==
    IF ~markdown_text.bound
    THEN Failed(row, MSG_UNBOUND_LOCAL, markdown_text, temp_files, trace)
    ELSE Commit(Effect("Updated",
                       [row EXCEPT !.text = markdown_text.v,
                                   !.hash = Sha1(markdown_text.v),
                                   !.update_flg = 1,
                                   !.error = ""],
                       markdown_text, temp_files, trace))

\* The UPDATE of lines 567-576 (and 435-444) with the current markdown_text:
\* UnboundLocalError when no iteration of this call has assigned it.
UpdateText(row, markdown_text, temp_files, trace) ==
    IF ~markdown_text.bound
    THEN Failed(row, MSG_UNBOUND_LOCAL, markdown_text, temp_files, trace)
    ELSE Commit(Effect("Updated",
                       [row EXCEPT !.text = markdown_text.v,
                                   !.hash = Sha1(markdown_text.v),
                                   !.update_flg = 1],
                       markdown_text, temp_files, trace))

\* Lines 429-432, 463-465, 529-532, given convert_content's effect c:
\* ValueError on None, else markdown_text = conversion_result.text_content
\* and the UPDATE.
AfterConversion(row, c, markdown_text, trace) ==
    IF ~c.result.ok
    THEN Failed(row, MSG_CONVERSION_FAILED, markdown_text, c.temp_files,
                [trace EXCEPT !.converted = TRUE, !.md_called = c.md_called,
                              !.artifact = c.artifact, !.file_type = c.file_type,
                              !.convert_error = c.error])
    ELSE UpdateText([row EXCEPT !.error = c.error],
                    Bound(c.result.text_content), c.temp_files,
                    [trace EXCEPT !.converted = TRUE, !.md_called = c.md_called,
                                  !.artifact = c.artifact, !.file_type = c.file_type,
                                  !.convert_error = c.error])

\* Lines 428-432, 457-465, 523-532: convert_content, then the above.
ConvertAndUpdate(row, content, content_type, w, markdown_text, temp_files, trace) ==
    AfterConversion(row,
                    convert_content(content, content_type, w.md, w.now, row.error,
                                    temp_files),
                    markdown_text, trace)

\* FileUpToDate with a strict comparison: a file modified at the very time
\* of the record's update is converted again.
FileUpToDateStrict(text, file_time, record_time) ==
    text # "" /\ file_time < record_time

\* Line 401: text and file_time <= record_time
FileUpToDate(text, file_time, record_time) ==
    text # "" /\ file_time <= record_time

\* Lines 396-446: the reference names an existing path.
ProcessLocalFile(row, w, markdown_text, temp_files) ==
    LET file_time == w.mtime
        record_time == StrptimeRecord(row.updated_at)
    IN  IF record_time.exc # None
        THEN Failed(row, record_time.exc, markdown_text, temp_files, NoTrace)
        ELSE IF FileUpToDate(row.text, file_time, record_time.val)
        THEN Skipped(row, MSG_FILE_UP_TO_DATE, markdown_text, temp_files, NoTrace)
        ELSE ConvertAndUpdate(row, Bytes(w.body), ReferenceFacts[row.reference].content_type,
                              w, markdown_text, temp_files, NoTrace)

\* Lines 448-465: a URL,selector pair.  When the selector matches nothing
\* the branch assigns nothing and control reaches the UPDATE of line 567.
ProcessSelector(row, w, markdown_text, temp_files) ==
    LET t == [NoTrace EXCEPT !.get_issued = TRUE]
    IN  IF w.get = "error"
        THEN Failed(row, MSG_CONNECTION_ERROR, markdown_text, temp_files, t)
        ELSE IF w.selected
        THEN ConvertAndUpdate(row, Str(w.selected_text), w.content_type,
                              w, markdown_text, temp_files, t)
        ELSE UpdateText(row, markdown_text, temp_files, t)

\* ContentUpToDate that never holds: the Last-Modified header is parsed and
\* then ignored.
ContentUpToDateIgnored(last_modified_date, record_update_date) ==
    FALSE

\* Line 485: last_modified_date <= record_update_date
ContentUpToDate(last_modified_date, record_update_date) ==
    last_modified_date <= record_update_date

\* Lines 467-535: a bare URL.
ProcessUrl(row, w, markdown_text, temp_files) ==
    LET t == [NoTrace EXCEPT !.head_issued = TRUE]
        last_modified_date == StrptimeHttp(w.last_modified)
        record_update_date == StrptimeRecord(row.updated_at)
        checked == row.text # "" /\ Truthy(w.last_modified)
    IN  IF w.head = "error"
        THEN Failed(row, MSG_CONNECTION_ERROR, markdown_text, temp_files, t)
        ELSE IF checked /\ last_modified_date.exc # None
        THEN Failed(row, last_modified_date.exc, markdown_text, temp_files, t)
        ELSE IF checked /\ record_update_date.exc # None
        THEN Failed(row, record_update_date.exc, markdown_text, temp_files, t)
        ELSE IF checked /\ ContentUpToDate(last_modified_date.val, record_update_date.val)
        THEN Skipped(row, MSG_CONTENT_UP_TO_DATE, markdown_text, temp_files, t)
        ELSE IF ~check_content_type(w.content_type)
        THEN Skipped(row, MSG_UNSUPPORTED_CONTENT_TYPE \o w.content_type,
                     markdown_text, temp_files, t)
        ELSE IF w.get = "error"
        THEN Failed(row, MSG_CONNECTION_ERROR, markdown_text, temp_files,
                    [t EXCEPT !.get_issued = TRUE])
        ELSE ConvertAndUpdate(row, Bytes(w.body), w.content_type, w, markdown_text,
                              temp_files, [t EXCEPT !.get_issued = TRUE])

\* process_record without the test of line 391: a record with an empty
\* reference goes through the branches like any other.
process_record_unguarded(row, w, markdown_text, temp_files) ==
    IF w.exists
    THEN ProcessLocalFile(row, w, markdown_text, temp_files)
    ELSE IF ReferenceFacts[row.reference].comma /\ ReferenceFacts[row.reference].http
    THEN ProcessSelector(row, w, markdown_text, temp_files)
    ELSE IF ReferenceFacts[row.reference].http
    THEN ProcessUrl(row, w, markdown_text, temp_files)
    ELSE Failed(row, MSG_FILE_NOT_FOUND, markdown_text, temp_files, NoTrace)

\* One iteration of the loop of lines 383-590 for the snapshot row `row` in
\* the world w.
process_record(row, w, markdown_text, temp_files) ==
    IF ~Truthy(row.reference)
    THEN Effect("Skipped", row, markdown_text, temp_files, NoTrace)
    ELSE IF w.exists
    THEN ProcessLocalFile(row, w, markdown_text, temp_files)
    ELSE IF ReferenceFacts[row.reference].comma /\ ReferenceFacts[row.reference].http
    THEN ProcessSelector(row, w, markdown_text, temp_files)
    ELSE IF ReferenceFacts[row.reference].http
    THEN ProcessUrl(row, w, markdown_text, temp_files)
    ELSE Failed(row, MSG_FILE_NOT_FOUND, markdown_text, temp_files, NoTrace)

(***************************************************************************)
(* Bounds and the remote store                                             *)
(***************************************************************************)
\* The number of record ids of the remote store, and the length of the
\* longest get_records response.
MaxRecords == 2
\* The number of method calls a client other than main() makes.
MaxCalls == 3

Ids == 1..MaxRecords

\* The records a get_records response may list.
\* Every reference comes with a text; the references whose handling reads
\* the text (a staleness check) come without one too.
Incoming ==
    {r \in [id : Ids, title : {"T"}, text : {"", "a"}, reference : References,
            group_id : {7}, created_by : {"u"}, created_at : {"2019-01-01 00:00:00"},
            updated_at : UpdatedAts] :
        r.text = "" => r.reference \in {REF_DOCX, REF_TXT, REF_URL}}

RECURSIVE SeqsUpTo(_, _)
SeqsUpTo(S, n) ==
    IF n = 0 THEN {<<>>}
    ELSE LET shorter == SeqsUpTo(S, n - 1)
         IN  shorter \cup {Append(s, x) : s \in {q \in shorter : Len(q) = n - 1}, x \in S}

\* response.json()['records']: the store lists its records by id, and may
\* list an id more than once.
Responses ==
    {response \in SeqsUpTo(Incoming, MaxRecords) :
        \A i \in 1..(Len(response) - 1) : response[i].id <= response[i + 1].id}

(***************************************************************************)
(* State                                                                   *)
(***************************************************************************)
VARIABLES
    record,         \* the table `record` as the connection sees it, in rowid order
    main,           \* main()'s next call ("caller": a client calling freely)
    calls,          \* the number of calls the client has made
    op,             \* the method running: "idle", "process_content", "update_records"
    records,        \* the rows of the running method's fetchall() still to visit
    markdown_text,  \* process_content's local variable
    temp_files,     \* the temporary artifacts on disk
    sent,           \* the update_record POSTs of the last update_records call
    outcome,        \* the terminal state of each record in the last pipeline pass
    last,           \* the last pipeline iteration: its row, world and effect
    absent,         \* the failed record left out of the comparison pass (0: none)
    shadow,         \* the comparison pass: the table and markdown_text of the
                    \* same pass over the batch without the record `absent`
    probe,          \* a call of the classifier on its own: inputs and results
    durable,        \* the table as of the connection's last commit
    disk,           \* the working directory's data.db and log.txt files, the
                    \* number of the running invocation and its start time
    pulled          \* per id, the last record received with that id (a set:
                    \* empty when none was) and the number of records
                    \* received with it, as the pulls of a changing store go

vars == <<record, main, calls, op, records, markdown_text, temp_files, sent,
          outcome, last, absent, shadow, probe, durable, disk, pulled>>

\* The row INSERT INTO record creates for an incoming record (lines 218-226),
\* with the column defaults of CREATE TABLE (lines 164-179).
InsertedRow(r, hash_value) ==
    [id |-> r.id, title |-> r.title, text |-> r.text, reference |-> r.reference,
     group_id |-> r.group_id, created_by |-> r.created_by,
     created_at |-> r.created_at, updated_at |-> r.updated_at,
     deleted |-> 0, hash |-> hash_value, update_flg |-> 0, error |-> None]

\* The row UPDATE record ... WHERE id = ? leaves (lines 206-215).
UpdatedRow(row, r, hash_value) ==
    [row EXCEPT !.title = r.title, !.text = r.text, !.reference = r.reference,
                !.group_id = r.group_id, !.created_by = r.created_by,
                !.created_at = r.created_at, !.updated_at = r.updated_at,
                !.hash = hash_value]

\* hash_value of line 198
SyncHash(text) == IF text # "" THEN Sha1(text) ELSE ""

\* Upsert without the SELECT of lines 201-202: every record is inserted, and
\* the column id is not UNIQUE.
UpsertInserts(table, r) ==
    Append(table, InsertedRow(r, SyncHash(r.text)))

\* One iteration of the loop of lines 197-226.
Upsert(table, r) ==
    LET hash_value == SyncHash(r.text)
    IN  IF \E i \in 1..Len(table) : table[i].id = r.id
        THEN [i \in 1..Len(table) |->
                IF table[i].id = r.id THEN UpdatedRow(table[i], r, hash_value)
                ELSE table[i]]
        ELSE Append(table, InsertedRow(r, hash_value))

RECURSIVE UpsertAll(_, _)
UpsertAll(table, response) ==
    IF response = <<>> THEN table
    ELSE UpsertAll(Upsert(table, Head(response)), Tail(response))

\* A main() that pushes before it processes: sync_records, update_records,
\* process_content.
NextCallPushesFirst(m) ==
    CASE m = "sync_records" -> "update_records"
      [] m = "update_records" -> "process_content"
      [] m = "process_content" -> "close"

\* main()'s call after method m (lines 625-629).
NextCall(m) ==
    CASE m = "sync_records" -> "process_content"
      [] m = "process_content" -> "update_records"
      [] m = "update_records" -> "close"

NoShadow == [record |-> <<>>, markdown_text |-> Unbound]
NoProbe ==
    [content |-> Bytes(<<>>), content_type |-> None, detected |-> [exc |-> None, val |-> None],
     extension |-> None]

\* The start times of the invocations, as init_database formats them
\* (line 130), in increasing order.
Timestamps == <<"20240101-000000", "20240101-000001">>

DB_FILE == "data.db"
LOG_FILE == "log.txt"

\* A file of the working directory: its name, the invocations whose data
\* it holds (the one that created a database, the ones that logged to a
\* log) and, for a database that is no longer open, the number of rows
\* committed to it.
File(name, runs, rows) == [name |-> name, runs |-> runs, rows |-> rows]

Exists(files, name) == \E f \in files : f.name = name
FileAt(files, name) == CHOOSE f \in files : f.name = name
Remove(files, name) == {f \in files : f.name # name}
Write(files, name, runs, rows) == Remove(files, name) \cup {File(name, runs, rows)}

\* os.rename(src, dst) on an existing src: dst is replaced when it exists.
Rename(files, src, dst, rows) ==
    Write(Remove(files, src), dst, FileAt(files, src).runs, rows)

\* A logging call of invocation run: the FileHandler appends to LOG_FILE,
\* which it created when it was opened.
Log(files, run) ==
    Write(files, LOG_FILE,
          IF Exists(files, LOG_FILE) THEN FileAt(files, LOG_FILE).runs \cup {run} ELSE {run}, 0)

\* ArchiveDatabase by removal: the new database takes the place of the old.
ArchiveDatabaseRemoves(files, timestamp, rows) ==
    Remove(files, DB_FILE)

\* Lines 132-135: data.db is renamed when it exists.
ArchiveDatabase(files, timestamp, rows) ==
    IF Exists(files, DB_FILE)
    THEN Rename(files, DB_FILE, timestamp \o DB_FILE, rows)
    ELSE files

\* Lines 142-148: log.txt is renamed, unless os.rename raises OSError.
ArchiveLog(files, timestamp, renamed) ==
    IF Exists(files, LOG_FILE) /\ renamed
    THEN Rename(files, LOG_FILE, timestamp \o LOG_FILE, 0)
    ELSE files

\* init_database (lines 128-181) of invocation run at time timestamp, the
\* database in the directory holding `rows` committed rows: the files
\* afterwards.
init_database(files, timestamp, run, rows, renamed) ==
    Write(Log(ArchiveLog(ArchiveDatabase(files, timestamp, rows), timestamp, renamed), run),
          DB_FILE, {run}, 0)

\* The files after DataCollector() (lines 14-20 and 106-109): the module's
\* basicConfig opens log.txt, load_config logs to it, init_database runs.
StartFiles(files, timestamp, run, rows, renamed) ==
    init_database(Log(files, run), timestamp, run, rows, renamed)

\* The directory after the first invocation has started in an empty one.
FirstDisk == [files |-> StartFiles({}, Timestamps[1], 1, 0, TRUE), clock |-> 1, run |-> 1]

\* Nothing received yet.
NoPulled == [i \in Ids |-> [last |-> {}, times |-> 0]]

\* The note of the records received, after one more response.
RECURSIVE Received(_, _)
Received(noted, response) ==
    IF response = <<>> THEN noted
    ELSE Received([noted EXCEPT ![Head(response).id] =
                        [last |-> {Head(response)}, times |-> @.times + 1]],
                  Tail(response))

\* The method m may be called now.
MayCall(m) ==
    /\ op = "idle"
    /\ \/ main = m
       \/ main = "caller" /\ calls < MaxCalls

\* The method m returns to its caller.
Return(m) ==
    /\ main' = IF main = "caller" THEN main ELSE NextCall(m)
    /\ calls' = IF main = "caller" THEN calls + 1 ELSE calls

Pending == [i \in Ids |-> "None"]

\* The state after DataCollector(): init_database has created an empty table.
Init ==
    /\ record = <<>>
    /\ main = "sync_records"
    /\ calls = 0
    /\ op = "idle"
    /\ records = <<>>
    /\ markdown_text = Unbound
    /\ temp_files = {}
    /\ sent = <<>>
    /\ outcome = Pending
    /\ last = {}
    /\ absent = 0
    /\ shadow = NoShadow
    /\ probe = NoProbe
    /\ durable = <<>>
    /\ disk = FirstDisk
    /\ pulled = NoPulled

\* The same, for a client that calls the methods in any order.
InitCaller ==
    /\ record = <<>>
    /\ main = "caller"
    /\ calls = 0
    /\ op = "idle"
    /\ records = <<>>
    /\ markdown_text = Unbound
    /\ temp_files = {}
    /\ sent = <<>>
    /\ outcome = Pending
    /\ last = {}
    /\ absent = 0
    /\ shadow = NoShadow
    /\ probe = NoProbe
    /\ durable = <<>>
    /\ disk = FirstDisk
    /\ pulled = NoPulled

(***************************************************************************)
(* Operations                                                              *)
(***************************************************************************)
\* sync_records (lines 187-231) when the GET fails or raise_for_status
\* raises: the except clause logs, nothing is written.
SyncFails ==
    /\ MayCall("sync_records")
    /\ Return("sync_records")
    /\ UNCHANGED <<record, op, records, markdown_text, temp_files, sent, outcome, last,
                   absent, shadow, probe, durable, disk, pulled>>

\* The loop of lines 197-226 and the commit of line 228, given the response.
Sync(response) ==
    /\ record' = UpsertAll(record, response)
    /\ durable' = record'

\* sync_records (lines 187-231): every record of the response is upserted,
\* then commit.
SyncRecords ==
    /\ MayCall("sync_records")
    /\ \E response \in Responses : Sync(response)
    /\ Return("sync_records")
    /\ UNCHANGED <<op, records, markdown_text, temp_files, sent, outcome, last,
                   absent, shadow, probe, disk, pulled>>

\* process_content, lines 379-381: SELECT * FROM record, fetchall().
ProcessStart ==
    /\ MayCall("process_content")
    /\ op' = "process_content"
    /\ records' = record
    /\ markdown_text' = Unbound
    /\ outcome' = [i \in Ids |->
                    IF \E k \in 1..Len(record) : record[k].id = i
                    THEN "Pending" ELSE "None"]
    /\ last' = {}
    /\ absent' = 0
    /\ shadow' = [record |-> record, markdown_text |-> Unbound]
    /\ UNCHANGED <<record, main, calls, temp_files, sent, probe, durable, disk, pulled>>

\* ApplyEffect with an UPDATE that also stamps the row it writes:
\* SET ..., updated_at = CURRENT_TIMESTAMP.
ApplyEffectStamps(table, row, eff) ==
    [i \in 1..Len(table) |->
        IF table[i].id = row.id
        THEN [table[i] EXCEPT
                !.text = IF eff.row.text # row.text THEN eff.row.text ELSE @,
                !.hash = IF eff.row.hash # row.hash THEN eff.row.hash ELSE @,
                !.update_flg = IF eff.row.update_flg # row.update_flg
                               THEN eff.row.update_flg ELSE @,
                !.error = IF eff.row.error # row.error THEN eff.row.error ELSE @,
                !.updated_at = IF eff.row.text # row.text THEN "2024-01-01 00:00:00" ELSE @]
        ELSE table[i]]

\* The table after the iteration's UPDATE statements WHERE id = row.id: the
\* columns the iteration wrote take the effect's values.
ApplyEffect(table, row, eff) ==
    [i \in 1..Len(table) |->
        IF table[i].id = row.id
        THEN [table[i] EXCEPT
                !.text = IF eff.row.text # row.text THEN eff.row.text ELSE @,
                !.hash = IF eff.row.hash # row.hash THEN eff.row.hash ELSE @,
                !.update_flg = IF eff.row.update_flg # row.update_flg
                               THEN eff.row.update_flg ELSE @,
                !.error = IF eff.row.error # row.error THEN eff.row.error ELSE @]
        ELSE table[i]]

\* The state after an iteration on the snapshot row `row` in the world w,
\* with effect eff.  The comparison pass makes the same iteration (effect
\* shadow_eff) unless the record is the one it leaves out: a record that
\* failed may be chosen as that record when none has been chosen yet.
Iterate(row, w, eff, shadow_eff) ==
    /\ record' = ApplyEffect(record, row, eff)
    /\ markdown_text' = eff.markdown_text
    /\ temp_files' = eff.temp_files
    /\ durable' = IF eff.committed THEN ApplyEffect(record, row, eff) ELSE durable
    /\ outcome' = [outcome EXCEPT ![row.id] = eff.outcome]
    /\ last' = {[before |-> row, w |-> w, outcome |-> eff.outcome,
                 trace |-> eff.trace, markdown_text |-> markdown_text,
                 temp_files |-> temp_files, record |-> record]}
    /\ \E leave_out \in BOOLEAN :
         /\ leave_out => (absent = 0 /\ eff.outcome = "Failed")
         /\ absent' = IF leave_out THEN row.id ELSE absent
         /\ shadow' = IF leave_out THEN shadow
                      ELSE [record |-> ApplyEffect(shadow.record, row, shadow_eff),
                            markdown_text |-> shadow_eff.markdown_text]

\* ProcessRecord with a retry: a record that failed stays first in the
\* list and is attempted once more.
ProcessRecordRetries ==
    /\ op = "process_content"
    /\ records # <<>>
    /\ \E w \in Worlds[Head(records).reference] :
         \E eff \in {process_record(Head(records), w, markdown_text, temp_files)},
            shadow_eff \in {process_record(Head(records), w, shadow.markdown_text,
                                           temp_files)} :
            Iterate(Head(records), w, eff, shadow_eff)
    /\ records' = IF outcome[Head(records).id] = "Pending"
                     /\ outcome'[Head(records).id] = "Failed"
                  THEN records ELSE Tail(records)
    /\ UNCHANGED <<main, calls, op, sent, probe, disk, pulled>>

\* process_content, one iteration of the loop of lines 383-590.
ProcessRecord ==
    /\ op = "process_content"
    /\ records # <<>>
    /\ \E w \in Worlds[Head(records).reference] :
         \E eff \in {process_record(Head(records), w, markdown_text, temp_files)},
            shadow_eff \in {process_record(Head(records), w, shadow.markdown_text,
                                           temp_files)} :
            Iterate(Head(records), w, eff, shadow_eff)
    /\ records' = Tail(records)
    /\ UNCHANGED <<main, calls, op, sent, probe, disk, pulled>>

\* process_content returns (line 592).
ProcessEnd ==
    /\ op = "process_content"
    /\ records = <<>>
    /\ op' = "idle"
    /\ markdown_text' = Unbound
    /\ last' = {}
    /\ absent' = 0
    /\ shadow' = NoShadow
    /\ Return("process_content")
    /\ UNCHANGED <<record, records, temp_files, sent, outcome, probe, durable, disk, pulled>>

\* UpdateStart with SELECT id, text FROM record: every record is to send.
UpdateStartSelectsAll ==
    /\ MayCall("update_records")
    /\ op' = "update_records"
    /\ records' = record
    /\ sent' = <<>>
    /\ UNCHANGED <<record, main, calls, markdown_text, temp_files, outcome, last,
                   absent, shadow, probe, durable, disk, pulled>>

\* update_records, lines 599-602: SELECT id, text FROM record WHERE update_flg = 1.
UpdateStart ==
    /\ MayCall("update_records")
    /\ op' = "update_records"
    /\ records' = SelectSeq(record, LAMBDA row : row.update_flg = 1)
    /\ sent' = <<>>
    /\ UNCHANGED <<record, main, calls, markdown_text, temp_files, outcome, last,
                   absent, shadow, probe, durable, disk, pulled>>

\* UpdateRecord without the inner try: a send that fails ends the loop.
UpdateRecordStops ==
    /\ op = "update_records"
    /\ records # <<>>
    /\ \E acknowledged \in BOOLEAN :
         /\ sent' = Append(sent, [id |-> Head(records).id, text |-> Head(records).text,
                                  acknowledged |-> acknowledged])
         /\ records' = IF acknowledged THEN Tail(records) ELSE <<>>
    /\ UNCHANGED <<record, main, calls, op, markdown_text, temp_files, outcome, last,
                   absent, shadow, probe, durable, disk, pulled>>

\* update_records, one iteration of the loop of lines 603-614: the POST is
\* acknowledged, or it (or raise_for_status) raises and the failure is logged.
UpdateRecord ==
    /\ op = "update_records"
    /\ records # <<>>
    /\ \E acknowledged \in BOOLEAN :
         sent' = Append(sent, [id |-> Head(records).id, text |-> Head(records).text,
                               acknowledged |-> acknowledged])
    /\ records' = Tail(records)
    /\ UNCHANGED <<record, main, calls, op, markdown_text, temp_files, outcome, last,
                   absent, shadow, probe, durable, disk, pulled>>

\* update_records returns.
UpdateEnd ==
    /\ op = "update_records"
    /\ records = <<>>
    /\ op' = "idle"
    /\ Return("update_records")
    /\ UNCHANGED <<record, records, markdown_text, temp_files, sent, outcome, last,
                   absent, shadow, probe, durable, disk, pulled>>

Next ==
    \/ SyncFails
    \/ SyncRecords
    \/ ProcessStart
    \/ ProcessRecord
    \/ ProcessEnd
    \/ UpdateStart
    \/ UpdateRecord
    \/ UpdateEnd

\* main(): sync_records, process_content, update_records (and close, which
\* only closes the connection).
Spec == Init /\ [][Next]_vars

\* A client calling the three methods in any order, MaxCalls times at most.
SpecCaller == InitCaller /\ [][Next]_vars

(***************************************************************************)
(* Successive invocations of the program in the same working directory     *)
(***************************************************************************)
\* The number of invocations.
MaxRuns == 2

\* The responses of a store that holds one record at most.
SingleResponses == {<<>>} \cup {<<r>> : r \in Incoming}

\* sync_records against such a store.
SyncSingle ==
    /\ MayCall("sync_records")
    /\ \E response \in SingleResponses : Sync(response)
    /\ Return("sync_records")
    /\ UNCHANGED <<op, records, markdown_text, temp_files, sent, outcome, last,
                   absent, shadow, probe, disk, pulled>>

\* The first invocation has started in an empty directory; the rename of
\* its log (opened by the module's basicConfig) succeeded or raised OSError.
InitRuns ==
    /\ record = <<>>
    /\ main = "sync_records"
    /\ calls = 0
    /\ op = "idle"
    /\ records = <<>>
    /\ markdown_text = Unbound
    /\ temp_files = {}
    /\ sent = <<>>
    /\ outcome = Pending
    /\ last = {}
    /\ absent = 0
    /\ shadow = NoShadow
    /\ probe = NoProbe
    /\ durable = <<>>
    /\ pulled = NoPulled
    /\ \E renamed \in BOOLEAN :
         disk = [files |-> StartFiles({}, Timestamps[1], 1, 0, renamed),
                 clock |-> 1, run |-> 1]

\* A new invocation once main() of the previous one has returned:
\* DataCollector() at a time not before the previous start.  The new
\* process has a new connection, to the database init_database creates;
\* the temporary artifacts left in the directory are still there.
NewRun ==
    /\ main = "close"
    /\ op = "idle"
    /\ disk.run < MaxRuns
    /\ \E clock \in disk.clock..Len(Timestamps), renamed \in BOOLEAN :
         disk' = [files |-> StartFiles(disk.files, Timestamps[clock], disk.run + 1,
                                       Len(durable), renamed),
                  clock |-> clock, run |-> disk.run + 1]
    /\ record' = <<>>
    /\ durable' = <<>>
    /\ pulled' = NoPulled
    /\ main' = "sync_records"
    /\ calls' = 0
    /\ records' = <<>>
    /\ markdown_text' = Unbound
    /\ sent' = <<>>
    /\ outcome' = Pending
    /\ last' = {}
    /\ absent' = 0
    /\ shadow' = NoShadow
    /\ UNCHANGED <<op, temp_files, probe>>

NextRuns ==
    \/ NewRun
    \/ SyncFails
    \/ SyncSingle
    \/ ProcessStart
    \/ ProcessRecord
    \/ ProcessEnd
    \/ UpdateStart
    \/ UpdateRecord
    \/ UpdateEnd

SpecRuns == InitRuns /\ [][NextRuns]_vars

(***************************************************************************)
(* Pulls on their own: sync_records called again and again on one table    *)
(***************************************************************************)
\* The records of a store whose records change between the pulls, and
\* within a response: two versions of each record, no column of the one
\* equal to a column of the other.
Versions ==
    {[id |-> i, title |-> "T", text |-> "a", reference |-> REF_TXT,
      group_id |-> 7, created_by |-> "u", created_at |-> "2019-01-01 00:00:00",
      updated_at |-> "2020-01-01 00:00:00"] : i \in Ids}
    \cup
    {[id |-> i, title |-> "U", text |-> "", reference |-> REF_URL,
      group_id |-> 8, created_by |-> "v", created_at |-> "2019-06-01 00:00:00",
      updated_at |-> "2021-01-01 00:00:00"] : i \in Ids}

\* response.json()['records'] of that store: in any order of ids, an id
\* listed more than once or not at all.
PullResponses == SeqsUpTo(Versions, MaxRecords)

\* sync_records against that store; the records received are noted.
PullRecords ==
    /\ MayCall("sync_records")
    /\ \E response \in PullResponses :
         /\ Sync(response)
         /\ pulled' = Received(pulled, response)
    /\ Return("sync_records")
    /\ UNCHANGED <<op, records, markdown_text, temp_files, sent, outcome, last,
                   absent, shadow, probe, disk>>

InitPulls == InitCaller

NextPulls ==
    \/ SyncFails
    \/ PullRecords

SpecPulls == InitPulls /\ [][NextPulls]_vars

\* The for statement of line 383 takes the next record of the list: the
\* step ProcessRecord makes, seen on the loop alone.
NextRecord ==
    /\ op = "process_content"
    /\ records # <<>>
    /\ records' = Tail(records)
    /\ op' = op

\* main() against the store whose records change.
NextMain ==
    \/ SyncFails
    \/ PullRecords
    \/ ProcessStart
    \/ ProcessRecord
    \/ ProcessEnd
    \/ UpdateStart
    \/ UpdateRecord
    \/ UpdateEnd

\* That main() with process_content as a running loop: single-threaded and
\* synchronous, the loop goes on to its next record as long as it has one
\* and then returns, every call an iteration makes (file read, HTTP
\* request, conversion) returning or raising.
SpecMain ==
    Init /\ [][NextMain]_vars /\ WF_<<op, records>>(NextRecord) /\ WF_vars(ProcessEnd)

(***************************************************************************)
(* The classifier on its own: detect_file_type and detect_file_extension   *)
(* applied to every payload and content-type of the model                  *)
(***************************************************************************)
OLE2_BODY == <<208, 207, 17, 224, 161, 177>>        \* b'\xD0\xCF\x11\xE0\xA1\xB1'
HTML_BODY == <<60, 104, 116, 109, 108, 62>>         \* b'<html>'

Payloads ==
    {Bytes(b) : b \in {PDF_BODY, DOCX_BODY, OLE2_BODY, HTML_BODY, TEXT_BODY,
                       FF_TEXT_BODY, <<>>}}
    \cup {Str(TEXT_BODY), Str(<<>>)}

InitClassify == InitCaller

\* One call of each of the classifier's two methods.
Classify ==
    /\ \E content \in Payloads, content_type \in ContentTypes :
         probe' = [content |-> content, content_type |-> content_type,
                   detected |-> detect_file_type(content, content_type),
                   extension |-> detect_file_extension(content, content_type)]
    /\ UNCHANGED <<record, main, calls, op, records, markdown_text, temp_files, sent,
                   outcome, last, absent, shadow, durable, disk, pulled>>

SpecClassify == InitClassify /\ [][Classify]_vars

(***************************************************************************)
(* Properties                                                              *)
(***************************************************************************)
\* The row of the table with this id (UNIQUE id, line 166).
RowOf(table, id) == table[CHOOSE i \in 1..Len(table) : table[i].id = id]

\* The columns a skip or a failure must leave alone are those of the snapshot.
ContentUnchanged(l) ==
    /\ RowOf(record, l.before.id).text = l.before.text
    /\ RowOf(record, l.before.id).hash = l.before.hash
    /\ RowOf(record, l.before.id).update_flg = l.before.update_flg

\* C1: in every reachable state of the table, after any sequence of
\* sync_records, process_content and update_records calls, every record
\* with update_flg = 1 has hash equal to the SHA-1 of its current text.
C1_DirtyHashIsSha1OfText ==
    \A i \in 1..Len(record) :
        record[i].update_flg = 1 => record[i].hash = Sha1(record[i].text)

\* The iteration l handled a URL,selector reference whose page was fetched
\* and whose selector matched no element.
SelectorMiss(l) ==
    /\ ReferenceFacts[l.before.reference].comma
    /\ ReferenceFacts[l.before.reference].http
    /\ ~l.w.exists
    /\ l.w.get = "ok"
    /\ ~l.w.selected

\* C2: a URL,selector record whose selector matches nothing ends as a
\* failure: a reason is in error, and text, hash and update_flg are those
\* of before, whatever records the pass processed earlier.
C2_SelectorMissIsFailure ==
    \A l \in last :
        SelectorMiss(l) =>
            /\ l.outcome = "Failed"
            /\ RowOf(record, l.before.id).error # None
            /\ ContentUnchanged(l)

\* C3: when a record of the batch fails, every other record of the batch
\* holds what the same pass over the batch without the failed record gives
\* it, and at the end of the pass every other record is in a terminal state.
C3_FailureIsolation ==
    (op = "process_content" /\ absent # 0) =>
        /\ outcome[absent] = "Failed"
        /\ Len(shadow.record) = Len(record)
        /\ \A i \in 1..Len(record) :
              record[i].id # absent =>
                  /\ record[i] = shadow.record[i]
                  /\ records = <<>> => outcome[record[i].id] \in {"Skipped", "Updated", "Failed"}

\* The first record of a batch of two failed and is the one left out; the
\* pass went on and updated the second.
C3_Witness ==
    /\ op = "process_content"
    /\ records = <<>>
    /\ Len(record) = 2
    /\ absent = record[1].id
    /\ outcome[record[2].id] = "Updated"

\* C4: once update_records has run, a record whose send was acknowledged
\* has update_flg = 0 and a record whose send failed has update_flg = 1.
C4_AcknowledgedPushClearsFlag ==
    main = "close" =>
        \A i \in 1..Len(sent) :
            RowOf(record, sent[i].id).update_flg = IF sent[i].acknowledged THEN 0 ELSE 1

\* The iteration l handled a reference naming an existing file modified at
\* or before the record's updated_at, the record's text being non-empty.
LocalFileUpToDate(l) ==
    /\ l.w.exists
    /\ l.before.text # ""
    /\ StrptimeRecord(l.before.updated_at).exc = None
    /\ l.w.mtime <= StrptimeRecord(l.before.updated_at).val

\* C5: a record with a non-empty text whose reference names an existing
\* file modified at or before updated_at is skipped: convert_content is not
\* called, the skip reason is in error, text, hash and update_flg are those
\* of before.
C5_UpToDateFileSkipped ==
    \A l \in last :
        LocalFileUpToDate(l) =>
            /\ l.outcome = "Skipped"
            /\ ~l.trace.converted
            /\ RowOf(record, l.before.id).error = MSG_FILE_UP_TO_DATE
            /\ ContentUnchanged(l)

\* A file modified at the very time of updated_at has been handled.
C5_Witness ==
    \E l \in last :
        /\ LocalFileUpToDate(l)
        /\ l.w.mtime = StrptimeRecord(l.before.updated_at).val
        /\ l.outcome = "Skipped"

\* The classifier was called on bytes beginning with %PDF.
PdfProbe ==
    /\ probe # NoProbe
    /\ probe.content.type = "bytes"
    /\ StartsWith(probe.content.data, PDF_MAGIC)

\* C6 as stated: for bytes beginning with %PDF and any claimed content-type,
\* detect_file_type returns 'pdf'.
C6_PdfWhateverContentType ==
    PdfProbe => (probe.detected.exc = None /\ probe.detected.val = "pdf")

\* The content-type contains a content-type registered for a file type
\* other than pdf.
NamesOtherKind(content_type) ==
    /\ content_type # None
    /\ \E k \in 1..Len(FILE_TYPES) :
          /\ FILE_TYPES[k].name # "pdf"
          /\ \E c \in 1..Len(FILE_TYPES[k].content_types) :
                Contains(FILE_TYPES[k].content_types[c], Lower(content_type))

\* C6, amended: for bytes beginning with %PDF, detect_file_type returns
\* 'pdf' when the claimed content-type is absent or contains no content-type
\* registered for another file type; when it contains one, the answer is a
\* file type other than pdf.
C6_PdfUnlessContentTypeNamesOtherKind ==
    PdfProbe =>
        /\ probe.detected.exc = None
        /\ (probe.detected.val = "pdf") <=> ~NamesOtherKind(probe.content_type)

\* %PDF bytes with a content-type that is not registered were classified.
C6_Witness ==
    /\ PdfProbe
    /\ probe.content_type = "application/octet-stream"
    /\ probe.detected.val = "pdf"

\* C7: a local .docx file beginning with PK 03 04 is handed to the converter
\* as an artifact whose name ends in .docx, and on success update_flg is 1.
C7_DocxArtifactIsDocx ==
    \A l \in last :
        (l.before.reference = REF_DOCX /\ l.w.exists /\ l.trace.md_called
         /\ StartsWith(l.w.body, ZIP_MAGIC)) =>
            /\ EndsWith(l.trace.artifact, ".docx")
            /\ l.outcome = "Updated" => RowOf(record, l.before.id).update_flg = 1

\* C8: between records and at the end of the batch no temporary artifact
\* exists.
C8_NoTemporaryArtifactLeft ==
    temp_files = {}

\* The iteration l handled a bare URL whose HEAD answered with a
\* Last-Modified not newer than the record's updated_at, the record's text
\* being non-empty.
UrlUpToDate(l) ==
    /\ ReferenceFacts[l.before.reference].http
    /\ ~ReferenceFacts[l.before.reference].comma
    /\ ~l.w.exists
    /\ l.w.head = "ok"
    /\ l.before.text # ""
    /\ l.w.last_modified # None
    /\ StrptimeHttp(l.w.last_modified).exc = None
    /\ StrptimeRecord(l.before.updated_at).exc = None
    /\ StrptimeHttp(l.w.last_modified).val <= StrptimeRecord(l.before.updated_at).val

\* C9: a bare-URL record with a non-empty text whose Last-Modified is not
\* newer than updated_at is skipped: no GET is issued, convert_content is
\* not called, text, hash and update_flg are those of before.
C9_UpToDateUrlSkipped ==
    \A l \in last :
        UrlUpToDate(l) =>
            /\ l.outcome = "Skipped"
            /\ l.trace.head_issued
            /\ ~l.trace.get_issued
            /\ ~l.trace.converted
            /\ ContentUnchanged(l)

\* A URL last modified at the very time of updated_at has been handled.
C9_Witness ==
    \E l \in last :
        /\ UrlUpToDate(l)
        /\ StrptimeHttp(l.w.last_modified).val = StrptimeRecord(l.before.updated_at).val
        /\ l.outcome = "Skipped"

\* The ids of the rows of a sequence, in order.
IdsOf(rows) == [i \in 1..Len(rows) |-> rows[i].id]

\* C10: update_records sends every record that had update_flg = 1 when it
\* started, one POST each and in order, whether the sends before it were
\* acknowledged or failed: the sends made and the records still to send are
\* at every step the dirty records, and at the end all of them were sent.
C10_PushIsolation ==
    (op = "update_records" \/ main = "close") =>
        /\ IdsOf(sent) \o IdsOf(records) =
              IdsOf(SelectSeq(record, LAMBDA row : row.update_flg = 1))
        /\ \A i \in 1..Len(sent) : sent[i].text = RowOf(record, sent[i].id).text
        /\ main = "close" => records = <<>>

\* The first of two sends failed and the second was made all the same.
C10_Witness ==
    /\ main = "close"
    /\ Len(sent) = 2
    /\ ~sent[1].acknowledged
    /\ sent[2].acknowledged

\* C11: at the end of a process_content pass every record with a non-empty
\* reference has a non-null error: each terminal outcome, Updated included,
\* wrote a message to it.
C11_EveryOutcomeWritesError ==
    (op = "process_content" /\ records = <<>>) =>
        \A i \in 1..Len(record) :
            record[i].reference # "" => record[i].error # None

\* In the iteration l the converter was called and returned None or a
\* result whose text_content is empty.
NullOrEmptyConversion(l) ==
    /\ l.trace.md_called
    /\ \/ l.w.md.kind = "none"
       \/ l.w.md.kind = "ok" /\ l.w.md.text = ""

\* C12: a converter result that is None or has an empty text_content ends
\* the record as Failed with a reason in error, and text, hash and
\* update_flg are those of before.
C12_NullOrEmptyResultIsFailure ==
    \A l \in last :
        NullOrEmptyConversion(l) =>
            /\ l.outcome = "Failed"
            /\ RowOf(record, l.before.id).error # None
            /\ ContentUnchanged(l)

\* C13: when the converter raises its conversion-specific exception, the
\* error of the record, once the record is terminal, contains the
\* converter's message verbatim.
C13_ConverterMessageKept ==
    \A l \in last :
        (l.trace.md_called /\ l.w.md.kind = "raise"
         /\ l.w.md.exc = "FileConversionException") =>
            Contains(l.w.md.message, RowOf(record, l.before.id).error)

\* C14: whenever process_content is between two records, or past the last,
\* every write it made for the records handled so far is committed: the
\* table as of the last commit is the table the connection sees.
C14_PerRecordDurability ==
    op = "process_content" => durable = record

\* A record was updated and committed, and another is still to be started.
C14_Witness ==
    /\ op = "process_content"
    /\ records # <<>>
    /\ \E l \in last :
          /\ l.outcome = "Updated"
          /\ RowOf(durable, l.before.id).update_flg = 1
          /\ RowOf(durable, l.before.id).text # l.before.text

\* C15: a record whose reference is empty is not processed: no request is
\* made, convert_content is not called, no file is created, and its row is
\* the row of before in every column.
C15_EmptyReferenceUntouched ==
    \A l \in last :
        l.before.reference = "" =>
            /\ l.trace = NoTrace
            /\ RowOf(record, l.before.id) = l.before
            /\ temp_files = l.temp_files
            /\ markdown_text = l.markdown_text

\* A record with an empty reference was passed over after another record
\* of the batch had been converted.
C15_Witness ==
    \E l \in last :
        /\ l.before.reference = ""
        /\ l.markdown_text.bound
        /\ RowOf(record, l.before.id).error = None

\* An invocation after the first has just started, at time Timestamps[disk.clock].
RunStarted ==
    /\ disk.run > 1
    /\ main = "sync_records"
    /\ op = "idle"

SelectorHit(l) ==
    /\ ReferenceFacts[l.before.reference].comma
    /\ ReferenceFacts[l.before.reference].http
    /\ ~l.w.exists
    /\ l.w.get = "ok"
    /\ l.w.selected

NamesNoKind(content_type) ==
    \/ content_type = None
    \/ \A k \in 1..Len(FILE_TYPES) :
          \A c \in 1..Len(FILE_TYPES[k].content_types) :
              ~Contains(FILE_TYPES[k].content_types[c], Lower(content_type))

\* The iteration l handled a bare URL whose HEAD answered with a
\* content-type that is not registered.
UrlOfUnknownContentType(l) ==
    /\ ReferenceFacts[l.before.reference].http
    /\ ~ReferenceFacts[l.before.reference].comma
    /\ ~l.w.exists
    /\ l.w.head = "ok"
    /\ NamesNoKind(l.w.content_type)

\* The record is skipped with a reason in error, without a GET and without
\* convert_content, its text, hash and update_flg those of before.
SkippedWithoutGet(l) ==
    /\ l.outcome = "Skipped"
    /\ RowOf(record, l.before.id).error # None
    /\ RowOf(record, l.before.id).error # l.before.error
    /\ ~l.trace.get_issued
    /\ ~l.trace.converted
    /\ ContentUnchanged(l)

\* C18 as stated: a bare-URL record whose probed content-type is not
\* registered is skipped, with a reason, no GET and no conversion.
C18_UnknownContentTypeSkipped ==
    \A l \in last :
        UrlOfUnknownContentType(l) => SkippedWithoutGet(l)

\* The staleness check of the iteration l runs and cannot parse the
\* Last-Modified header.
LastModifiedUnparseable(l) ==
    /\ l.before.text # ""
    /\ Truthy(l.w.last_modified)
    /\ StrptimeHttp(l.w.last_modified).exc # None

\* C18, amended: such a record is skipped, with a reason, no GET and no
\* conversion, unless its text is non-empty and the Last-Modified header
\* does not parse, in which case it is Failed; the reason is the
\* unsupported content-type unless the staleness check skipped it first.
C18_UnknownContentTypeSkippedIfDateParses ==
    \A l \in last :
        UrlOfUnknownContentType(l) =>
            IF LastModifiedUnparseable(l)
            THEN l.outcome = "Failed" /\ ~l.trace.get_issued /\ ContentUnchanged(l)
            ELSE /\ SkippedWithoutGet(l)
                 /\ RowOf(record, l.before.id).error =
                       IF UrlUpToDate(l) THEN MSG_CONTENT_UP_TO_DATE
                       ELSE MSG_UNSUPPORTED_CONTENT_TYPE \o l.w.content_type

\* A record whose URL is newer than its updated_at was skipped for its
\* content-type.
C18_Witness ==
    \E l \in last :
        /\ UrlOfUnknownContentType(l)
        /\ l.before.text # ""
        /\ Truthy(l.w.last_modified)
        /\ ~UrlUpToDate(l)
        /\ RowOf(record, l.before.id).error = MSG_UNSUPPORTED_CONTENT_TYPE \o "image/png"

\* What detect_file_type answers for the arguments convert_content got in
\* the iteration l: the file's bytes with the content-type of its
\* extension, the element's text or the body with the response's header.
Classified(l) ==
    IF l.w.exists
    THEN detect_file_type(Bytes(l.w.body), ReferenceFacts[l.before.reference].content_type)
    ELSE IF ReferenceFacts[l.before.reference].comma
    THEN detect_file_type(Str(l.w.selected_text), l.w.content_type)
    ELSE detect_file_type(Bytes(l.w.body), l.w.content_type)

\* C19: when detect_file_type returns None for the payload, convert_content
\* fails with the unsupported-format reason, which it writes to error; it
\* creates no artifact and does not call the converter; the record ends
\* Failed with its text, hash and update_flg those of before.
C19_UnknownKindFailsAtOnce ==
    \A l \in last :
        (l.trace.converted /\ Classified(l).exc = None /\ Classified(l).val = None) =>
            /\ l.trace.convert_error = MSG_UNSUPPORTED_FORMAT
            /\ l.trace.artifact = None
            /\ ~l.trace.md_called
            /\ temp_files = l.temp_files
            /\ l.outcome = "Failed"
            /\ ContentUnchanged(l)

\* A file without a known extension or header went to convert_content.
C19_Witness ==
    \E l \in last :
        /\ l.trace.converted
        /\ l.w.exists
        /\ Classified(l).exc = None
        /\ Classified(l).val = None
        /\ l.outcome = "Failed"

\* C20: a successful conversion of a record changes, in the whole table,
\* the text, hash and update_flg of that record and nothing else: text is
\* the produced text, hash its SHA-1, update_flg 1; error is as it was.
C20_SuccessWritesTextHashFlagOnly ==
    \A l \in last :
        (l.trace.converted /\ l.outcome = "Updated") =>
            /\ markdown_text.bound
            /\ record = [i \in 1..Len(l.record) |->
                            IF l.record[i].id = l.before.id
                            THEN [l.record[i] EXCEPT !.text = markdown_text.v,
                                                     !.hash = Sha1(markdown_text.v),
                                                     !.update_flg = 1]
                            ELSE l.record[i]]

\* The second record of a batch was converted with success after the first
\* had got an error.
C20_Witness ==
    \E l \in last :
        /\ l.trace.converted
        /\ l.outcome = "Updated"
        /\ Len(record) = 2
        /\ l.before.id = record[2].id
        /\ record[1].error # None
        /\ record[2].text # l.before.text

\* The columns process_content has no UPDATE for.
Provenance(row) ==
    [id |-> row.id, title |-> row.title, reference |-> row.reference,
     group_id |-> row.group_id, created_by |-> row.created_by,
     created_at |-> row.created_at, updated_at |-> row.updated_at,
     deleted |-> row.deleted]

\* C21: no step of process_content inserts or deletes a row or changes the
\* id, title, reference, group_id, created_by, created_at, updated_at or
\* deleted of a row: from the start of the pass to its end the table keeps
\* its rows, in order, and only their text, hash, update_flg and error change.
C21_ProcessContentFrame ==
    [][(op = "process_content" \/ op' = "process_content") =>
          /\ Len(record') = Len(record)
          /\ \A i \in 1..Len(record) : Provenance(record'[i]) = Provenance(record[i])]_vars

\* An iteration stored a new text in the second row of a table of two rows.
C21_Witness ==
    \E l \in last :
        /\ l.outcome = "Updated"
        /\ Len(record) = 2
        /\ l.before.id = record[2].id
        /\ record[2].text # l.record[2].text
        /\ record[2].update_flg = 1

\* The columns of a row that sync_records takes from the incoming record.
Pulled(row) ==
    [id |-> row.id, title |-> row.title, text |-> row.text,
     reference |-> row.reference, group_id |-> row.group_id,
     created_by |-> row.created_by, created_at |-> row.created_at,
     updated_at |-> row.updated_at]

\* C22: after any sequence of pulls the table has one row at most for each
\* id: none when no record with that id was ever received, and otherwise
\* one row whose title, text, reference, group_id, created_by, created_at
\* and updated_at are those of the last record received with that id,
\* also when a response listed the id more than once.
C22_UpsertByIdLastWins ==
    /\ \A i, j \in 1..Len(record) : record[i].id = record[j].id => i = j
    /\ \A id \in Ids :
         IF pulled[id].times = 0
         THEN \A i \in 1..Len(record) : record[i].id # id
         ELSE /\ \E i \in 1..Len(record) : record[i].id = id
              /\ pulled[id].last = {Pulled(RowOf(record, id))}

\* Two pulls received id 1 three times and id 2 once, so one response
\* listed id 1 twice: the table holds the row of id 2, inserted first, and
\* one row of id 1.
C22_Witness ==
    /\ calls = 2
    /\ pulled[1].times = 3
    /\ pulled[2].times = 1
    /\ Len(record) = 2
    /\ record[1].id = 2
    /\ record[2].title = "U"

\* The record of this row is in a terminal state of the pipeline.
Terminal(row) == outcome[row.id] \in {"Skipped", "Updated", "Failed"}

\* C23: the phases of a run are in the order pull, pipeline, push.  Until
\* the pull has returned no record was processed or sent.  In the pipeline
\* nothing was sent, the records visited are each in a terminal state, and
\* the records still to visit are not begun: their rows are those of the
\* snapshot.  A push has begun only after the pipeline returned with every
\* record of the table in a terminal state.
C23_PullPipelinePush ==
    /\ main = "sync_records" =>
          /\ op = "idle"
          /\ last = {}
          /\ sent = <<>>
          /\ \A id \in Ids : outcome[id] = "None"
    /\ op = "process_content" =>
          /\ main = "process_content"
          /\ sent = <<>>
          /\ \A i \in 1..Len(record) :
                IF \E k \in 1..Len(records) : records[k].id = record[i].id
                THEN /\ outcome[record[i].id] = "Pending"
                     /\ \E k \in 1..Len(records) : records[k] = record[i]
                ELSE Terminal(record[i])
    /\ (op = "update_records" \/ sent # <<>>) =>
          /\ main \in {"update_records", "close"}
          /\ last = {}
          /\ \A i \in 1..Len(record) : Terminal(record[i])

\* The push sent a record after the pipeline had updated one record of the
\* table and failed on the other.
C23_Witness ==
    /\ op = "update_records"
    /\ Len(sent) = 1
    /\ Len(record) = 2
    /\ \E i, j \in 1..2 :
         /\ outcome[record[i].id] = "Updated"
         /\ outcome[record[j].id] = "Failed"

\* This step of the pass visits the first record still to visit, once: the
\* record leaves the list, goes from pending to a terminal state, and no
\* other record changes state or row.
VisitsHead ==
    /\ records # <<>>
    /\ records' = Tail(records)
    /\ outcome[Head(records).id] = "Pending"
    /\ outcome'[Head(records).id] \in {"Skipped", "Updated", "Failed"}
    /\ \A id \in Ids \ {Head(records).id} : outcome'[id] = outcome[id]
    /\ \A i \in 1..Len(record) :
          record[i].id # Head(records).id => record'[i] = record[i]

\* The pass has ended with every record of the table in a terminal state.
PassDone ==
    /\ op = "idle"
    /\ main = "update_records"
    /\ \A i \in 1..Len(record) : Terminal(record[i])

\* C24: process_content is one pass that ends.  Every step of the pass
\* either visits the first record not yet visited, which reaches a terminal
\* state and is never visited again (a record that failed is not
\* re-attempted), or returns when no record is left; and a pass that has
\* started ends, with every record of its start in a terminal state.
C24_SinglePassTerminates ==
    /\ [][op = "process_content" =>
            \/ VisitsHead
            \/ records = <<>> /\ op' = "idle"]_vars
    /\ (op = "process_content") ~> PassDone

\* The first record of the pass failed, and the pass went on to the second
\* and last record without attempting the first again.
C24_Witness ==
    /\ op = "process_content"
    /\ records = <<>>
    /\ Len(record) = 2
    /\ outcome[record[1].id] = "Failed"
    /\ outcome[record[2].id] = "Skipped"
    /\ \E l \in last : l.before.id = record[2].id

\* C25: in a run, a record is sent to the update endpoint only if the
\* pipeline of the run set its update_flg to 1, that is only if the record
\* ended Updated: a record with an empty reference, a record that ended
\* Skipped and a record that ended Failed have update_flg = 0 and are not
\* sent; and the text sent is the text the pipeline stored in the row.
C25_OnlyDirtyRecordsPushed ==
    (main \in {"update_records", "close"}) =>
        /\ \A i \in 1..Len(record) :
              record[i].update_flg = (IF outcome[record[i].id] = "Updated" THEN 1 ELSE 0)
        /\ \A i \in 1..Len(record) :
              record[i].reference = "" => outcome[record[i].id] = "Skipped"
        /\ \A k \in 1..Len(sent) :
              /\ outcome[sent[k].id] = "Updated"
              /\ RowOf(record, sent[k].id).update_flg = 1
              /\ RowOf(record, sent[k].id).reference # ""
              /\ sent[k].text = RowOf(record, sent[k].id).text

\* The run is over: of its two records the first, with an empty reference,
\* was not sent, and the second, which the pipeline updated, was sent with
\* the text the pipeline stored.
C25_Witness ==
    /\ main = "close"
    /\ Len(record) = 2
    /\ record[1].reference = ""
    /\ outcome[record[2].id] = "Updated"
    /\ Len(sent) = 1
    /\ sent[1].id = record[2].id
    /\ sent[1].text = "md"
====
